---------------------------- MODULE Spec2Model ----------------------------
(***************************************************************************)
(* Model of the two site scrapers (src/site1.py, src/site2.py): the        *)
(* retrying fetch_url helper, slug_from_url, the HTML -> Markdown          *)
(* converter, scrape_article with its 300-character gate, and the crawl    *)
(* loops of main / scrape_category / scrape_all_pages up to zip_results.   *)
(*                                                                         *)
(* Text is modelled by TLA+ strings, one character per Python character.   *)
(* A parsed HTML subtree is a sequence of nodes in document order, each    *)
(* with the index of its parent (0 is the subtree's root element).         *)
(***************************************************************************)
EXTENDS Integers, Sequences, FiniteSets, TLC

VARIABLES
    site,          \* which script runs: "site1" or "site2"
    web,           \* what the site serves: "any" page, or the two-page "fixture"
    listed,        \* listing links served so far
    pc,            \* position of the single thread of control
    retries,       \* fetch_url's retries argument
    call,          \* the fetch_url call in progress or just ended
    categories,    \* site1 main: unique_categories, a sequence of <<name, url>>
    catIdx,        \* site1 main: index of the category being scraped
    article_links, \* hrefs of the listing being iterated
    linkIdx,       \* index of the link being iterated
    folder,        \* output folder of the article being scraped
    last_page,     \* site2 scrape_all_pages: last_page
    page,          \* site2 scrape_all_pages: loop variable page
    seen,          \* run-scoped seen set (site1: category hrefs, site2: article URLs)
    requested,     \* every fetch_url call so far, in order: [kind, url]
    scrapes,       \* what each finished scrape_article call did, in order
    files,         \* the output tree: path -> [title, source, body]
    log,           \* result lines printed so far, as a set of [msg, url]; the
                   \* progress lines (one per attempt, page, listing) are not kept
    archive,       \* what the run did to <ZIP_NAME>.zip
    zips,          \* number of zip_results calls
    doc,           \* converter harness: the content subtree
    md,            \* converter harness: the list md when the loop ends, and the
                   \* text html_to_markdown returns
    slept,         \* seconds the crawl loops have slept between articles so far
    slug_in,       \* slug harness: the argument of slug_from_url
    slug_out       \* slug harness: what slug_from_url returned

vars == <<site, web, listed, pc, retries, call, categories, catIdx, article_links, linkIdx,
          folder, last_page, page, seen, requested, scrapes, files, log, archive,
          zips, doc, md, slept, slug_in, slug_out>>

-----------------------------------------------------------------------------
(* Bounds of the model *)

MaxRetries == 4     \* fetch_url is exercised with retries in 1..MaxRetries
MaxLinks == 2       \* links on one index or listing page
MaxListed == 2      \* article links on all the listing pages of a run together
MaxNodes == 3       \* nodes of a content subtree given to the converter
MaxPage == 1        \* largest page index a last-page link names
MaxRows == 2        \* rows of a table given to the converter
MaxCells == 3       \* cells of one table row
MaxUrlLen == 4      \* characters of a URL given to slug_from_url

(* Program constants *)

DefaultRetries == 3
MinContent == 300
REQUEST_DELAY == 1

Sites == {"site1", "site2"}
BASE_URL == "s://h"
MAIN_PAGE == "s://h/t/"
START_PAGE == "s://h/p"
BASE_FOLDER == "out1"
OUTPUT_FOLDER == "out2"
NBSP == "~"          \* stands for U+00A0
BACKTICK == "'"      \* stands for U+0060, which a TLA+ string cannot hold
FENCE == BACKTICK \o BACKTICK \o BACKTICK

-----------------------------------------------------------------------------
(* Python string operations *)

Char(s, i) == SubSeq(s, i, i)

\* characters str.strip() removes: Unicode whitespace, U+00A0 included
IsSpace(c) == c \in {" ", "\n", "\t", NBSP}

RECURSIVE FirstNonSpace(_, _)
FirstNonSpace(s, i) ==
    IF i > Len(s) THEN i
    ELSE IF IsSpace(Char(s, i)) THEN FirstNonSpace(s, i + 1) ELSE i

RECURSIVE LastNonSpace(_, _)
LastNonSpace(s, i) ==
    IF i < 1 THEN i
    ELSE IF IsSpace(Char(s, i)) THEN LastNonSpace(s, i - 1) ELSE i

\* str.strip()
Strip(s) ==
    LET a == FirstNonSpace(s, 1)
        b == LastNonSpace(s, Len(s))
    IN  IF a > b THEN "" ELSE SubSeq(s, a, b)

RECURSIVE RStripSlash(_)
\* str.rstrip("/")
RStripSlash(s) ==
    IF Len(s) > 0 /\ Char(s, Len(s)) = "/"
    THEN RStripSlash(SubSeq(s, 1, Len(s) - 1))
    ELSE s

RECURSIVE LastSlash(_, _)
\* index of the last "/" at or before i, 0 if none
LastSlash(s, i) ==
    IF i < 1 THEN 0
    ELSE IF Char(s, i) = "/" THEN i ELSE LastSlash(s, i - 1)

\* str.split("/")[-1]
LastSegment(s) == SubSeq(s, LastSlash(s, Len(s)) + 1, Len(s))

RECURSIVE Join(_, _)
\* sep.join(parts)
Join(parts, sep) ==
    IF Len(parts) = 0 THEN ""
    ELSE IF Len(parts) = 1 THEN parts[1]
    ELSE parts[1] \o sep \o Join(Tail(parts), sep)

RECURSIVE Rep(_, _)
\* c * n
Rep(c, n) ==
    IF n <= 0 THEN ""
    ELSE LET h == Rep(c, n \div 2)
         IN  IF n % 2 = 1 THEN h \o h \o c ELSE h \o h

StartsWith(s, p) == Len(s) >= Len(p) /\ SubSeq(s, 1, Len(p)) = p

RECURSIVE Contains(_, _)
\* t in s
Contains(s, t) ==
    IF Len(s) < Len(t) THEN FALSE
    ELSE IF StartsWith(s, t) THEN TRUE
    ELSE Contains(SubSeq(s, 2, Len(s)), t)

\* slug_from_url without the rstrip
slug_from_url_NoStrip(url) == LastSegment(url)

\* url.rstrip("/").split("/")[-1]
slug_from_url(url) == LastSegment(RStripSlash(url))

\* a URL requests accepts: it has a scheme
HasScheme(url) == StartsWith(url, "s:")

\* urllib.parse.urljoin(BASE_URL, href); BASE_URL has an empty path
urljoin(base, href) ==
    IF href = "" THEN base
    ELSE IF HasScheme(href) THEN href
    ELSE IF StartsWith(href, "//") THEN "s:" \o href
    ELSE IF StartsWith(href, "/") THEN base \o href
    ELSE base \o "/" \o href

-----------------------------------------------------------------------------
(* BeautifulSoup queries on a content subtree.  A node is                   *)
(* [tag, parent, text, href, src, alt]; tag "#text" is a string node.       *)

Node(tag, parent) ==
    [tag |-> tag, parent |-> parent, text |-> "", href |-> "", src |-> "", alt |-> ""]
TextNode(parent, text) == [Node("#text", parent) EXCEPT !.text = text]
LinkNode(parent, href) == [Node("a", parent) EXCEPT !.href = href]
ImgNode(parent, src, alt) == [Node("img", parent) EXCEPT !.src = src, !.alt = alt]

RECURSIVE IsDesc(_, _, _)
\* node j lies inside element i (i = 0: inside the root)
IsDesc(d, i, j) ==
    IF j = 0 THEN FALSE
    ELSE IF d[j].parent = i THEN TRUE
    ELSE IsDesc(d, i, d[j].parent)

Indexes(d) == [k \in 1..Len(d) |-> k]

\* el.find_all(tags, recursive=True) / recursive=False, in document order
find_all(d, i, tags, recursive) ==
    SelectSeq(Indexes(d),
              LAMBDA j : /\ d[j].tag \in tags
                         /\ IF recursive THEN IsDesc(d, i, j) ELSE d[j].parent = i)

\* el.find(tag): the first match or 0 (None)
find(d, i, tag) ==
    LET m == find_all(d, i, {tag}, TRUE)
    IN  IF Len(m) = 0 THEN 0 ELSE m[1]

\* el.parent.name; the root of a content subtree is a div
ParentName(d, i) == IF d[i].parent = 0 THEN "div" ELSE d[d[i].parent].tag

\* the strings inside element i, in document order
Strings(d, i) ==
    LET idx == SelectSeq(Indexes(d), LAMBDA j : d[j].tag = "#text" /\ IsDesc(d, i, j))
    IN  [k \in 1..Len(idx) |-> d[idx[k]].text]

\* el.get_text(sep, strip=True): stripped strings, empty ones dropped, joined
get_text_strip(d, i, sep) ==
    LET raw == Strings(d, i)
        st  == [k \in 1..Len(raw) |-> Strip(raw[k])]
    IN  Join(SelectSeq(st, LAMBDA t : t # ""), sep)

\* el.get_text(): all strings as they are
get_text(d, i) == Join(Strings(d, i), "")

-----------------------------------------------------------------------------
(* html_to_markdown: what the loop body appends to md for one element *)

allowed_tags(s) ==
    IF s = "site1"
    THEN {"h1", "h2", "h3", "h4", "h5", "p", "br", "hr", "strong", "em", "b", "i",
          "ul", "ol", "li", "blockquote", "dl", "dt", "dd",
          "table", "thead", "tbody", "tfoot", "tr", "th", "td",
          "figure", "figcaption", "img", "pre", "code", "a"}
    ELSE {"h1", "h2", "h3", "h4", "h5", "h6", "p", "span", "br", "hr",
          "strong", "b", "em", "i", "u", "ul", "ol", "li", "blockquote",
          "table", "thead", "tbody", "tr", "th", "td",
          "img", "figure", "figcaption", "pre", "code", "a", "div"}

HeadingLevel(tag) ==
    CASE tag = "h1" -> 1 [] tag = "h2" -> 2 [] tag = "h3" -> 3
      [] tag = "h4" -> 4 [] tag = "h5" -> 5 [] tag = "h6" -> 6

EmitHeading(d, i) ==
    LET text == get_text_strip(d, i, "")
    IN  IF text # "" THEN <<Rep("#", HeadingLevel(d[i].tag)) \o " " \o text \o "\n">>
        ELSE <<>>

EmitParagraph(d, i) ==
    LET text == get_text_strip(d, i, " ")
    IN  IF text # "" /\ text # NBSP THEN <<text \o "\n">> ELSE <<>>

EmitList(d, i) ==
    LET lis == find_all(d, i, {"li"}, FALSE)
        txt == [k \in 1..Len(lis) |-> get_text_strip(d, lis[k], " ")]
        ok  == SelectSeq(txt, LAMBDA t : t # "")
    IN  [k \in 1..Len(ok) |-> "- " \o ok[k]] \o <<"">>

EmitBlockquote(d, i) ==
    LET text == get_text_strip(d, i, " ")
    IN  IF text # "" THEN <<"> " \o text \o "\n">> ELSE <<>>

EmitDt(d, i) ==
    LET text == get_text_strip(d, i, "")
    IN  IF text # "" THEN <<"**" \o text \o "**">> ELSE <<>>

EmitDd(d, i) ==
    LET text == get_text_strip(d, i, " ")
    IN  IF text # "" THEN <<": " \o text \o "\n">> ELSE <<>>

\* one table row: the line for its first two cells, if any
EmitRow(d, r) ==
    LET cells == find_all(d, r, {"td", "th"}, TRUE)
    IN  IF Len(cells) >= 2
        THEN LET left  == get_text_strip(d, cells[1], " ")
                 right == get_text_strip(d, cells[2], " ")
             IN  IF left # "" /\ right # ""
                 THEN <<"- **" \o left \o "** " \o right>>
                 ELSE <<>>
        ELSE <<>>

RECURSIVE Flatten(_)
\* the concatenation of a sequence of sequences
Flatten(ss) == IF Len(ss) = 0 THEN <<>> ELSE Head(ss) \o Flatten(Tail(ss))

EmitTable(d, i) ==
    LET rows == find_all(d, i, {"tr"}, TRUE)
    IN  <<"">> \o Flatten([k \in 1..Len(rows) |-> EmitRow(d, rows[k])]) \o <<"">>

EmitFigure(d, i) ==
    LET img     == find(d, i, "img")
        caption == find(d, i, "figcaption")
        imgLine == IF img # 0 /\ d[img].src # ""
                   THEN <<"![" \o Strip(d[img].alt) \o "](" \o d[img].src \o ")">>
                   ELSE <<>>
        capText == IF caption # 0 THEN get_text_strip(d, caption, " ") ELSE ""
        capLine == IF capText # "" THEN <<"*" \o capText \o "*\n">> ELSE <<>>
    IN  imgLine \o capLine

EmitImg(s, d, i) ==
    IF d[i].src = "" THEN <<>>
    ELSE IF s = "site1"
         THEN <<"![" \o d[i].alt \o "](" \o d[i].src \o ")\n">>
         ELSE <<"![" \o d[i].alt \o "](" \o urljoin(BASE_URL, d[i].src) \o ")\n">>

EmitPre(d, i) ==
    LET code == get_text(d, i)
    IN  IF Strip(code) # "" THEN <<FENCE \o "\n" \o code \o "\n" \o FENCE \o "\n">> ELSE <<>>

EmitCode(d, i) ==
    LET text == get_text_strip(d, i, "")
    IN  IF text # "" THEN <<BACKTICK \o text \o BACKTICK>> ELSE <<>>

EmitLink(s, d, i) ==
    LET href == d[i].href
        text == get_text_strip(d, i, "")
    IN  IF href # "" /\ text # ""
        THEN IF s = "site1"
             THEN <<"[" \o text \o "](" \o href \o ")">>
             ELSE <<"[" \o text \o "](" \o urljoin(BASE_URL, href) \o ")">>
        ELSE <<>>

\* the if/elif chain of site1.py
Emit1(d, i) ==
    LET tag == d[i].tag
    IN  CASE tag \in {"h1", "h2", "h3", "h4", "h5"} -> EmitHeading(d, i)
          [] tag = "p" -> EmitParagraph(d, i)
          [] tag = "br" -> <<"">>
          [] tag = "hr" -> <<"\n---\n">>
          [] tag \in {"ul", "ol"} -> EmitList(d, i)
          [] tag = "blockquote" -> EmitBlockquote(d, i)
          [] tag = "dt" -> EmitDt(d, i)
          [] tag = "dd" -> EmitDd(d, i)
          [] tag = "table" -> EmitTable(d, i)
          [] tag = "figure" -> EmitFigure(d, i)
          [] tag = "img" /\ ParentName(d, i) # "figure" -> EmitImg("site1", d, i)
          [] tag = "pre" -> EmitPre(d, i)
          [] tag = "code" -> EmitCode(d, i)
          [] tag = "a" -> EmitLink("site1", d, i)
          [] OTHER -> <<>>

\* the if/elif chain of site2.py
Emit2(d, i) ==
    LET tag == d[i].tag
    IN  CASE tag \in {"h1", "h2", "h3", "h4", "h5", "h6"} -> EmitHeading(d, i)
          [] tag \in {"p", "span"} -> EmitParagraph(d, i)
          [] tag \in {"ul", "ol"} -> EmitList(d, i)
          [] tag = "blockquote" -> EmitBlockquote(d, i)
          [] tag = "table" -> EmitTable(d, i)
          [] tag = "img" -> EmitImg("site2", d, i)
          [] tag = "pre" -> EmitPre(d, i)
          [] tag = "code" -> EmitCode(d, i)
          [] tag = "a" -> EmitLink("site2", d, i)
          [] OTHER -> <<>>

Emit(s, d, i) == IF s = "site1" THEN Emit1(d, i) ELSE Emit2(d, i)

\* Visited with recursive=False: the direct children of the content root only
Visited_TopLevel(s, d) == find_all(d, 0, allowed_tags(s), FALSE)

\* the elements the loop visits: content_div.find_all(allowed_tags, recursive=True)
Visited(s, d) == find_all(d, 0, allowed_tags(s), TRUE)

\* md when the loop ends
MdLines(s, d) ==
    LET v == Visited(s, d)
    IN  Flatten([k \in 1..Len(v) |-> Emit(s, d, v[k])])

html_to_markdown(s, d) == Strip(Join(MdLines(s, d), "\n"))

-----------------------------------------------------------------------------
(* requests.get followed by raise_for_status: what one attempt can end with *)

Transient == {"read_timeout", "connect_timeout", "connection_error"}
OtherRequestErrors == {"too_many_redirects", "decode_error", "invalid_url"}

\* a URL without a scheme is refused before anything is sent; the fixture site
\* answers every request, an article request possibly with an error status
Outcomes(w, kind, url) ==
    IF w = "fixture" THEN IF kind = "article" THEN {"ok", "http_error"} ELSE {"ok"}
    ELSE IF HasScheme(url)
    THEN {"ok", "http_error"} \cup Transient \cup {"too_many_redirects", "decode_error"}
    ELSE {"invalid_url"}

Line(msg, url) == [msg |-> msg, url |-> url]

NoCall ==
    [kind |-> "", url |-> "", attempt |-> 0, gets |-> 0, sleeps |-> 0, result |-> "idle",
     last |-> "", allTransient |-> TRUE]

\* fetch_url entered: the loop is about to make attempt 1
NewCall(kind, url) ==
    [NoCall EXCEPT !.kind = kind, !.url = url, !.attempt = 1, !.result = "running"]

\* LoopEnd with the range one too long: range(1, retries + 2)
LoopEnd_OneMore(c, n) ==
    IF c.attempt <= n THEN [c EXCEPT !.attempt = @ + 1] ELSE [c EXCEPT !.result = "none"]

\* the loop goes on to the next attempt, or ends and the function returns None
LoopEnd(c, n) ==
    IF c.attempt < n THEN [c EXCEPT !.attempt = @ + 1] ELSE [c EXCEPT !.result = "none"]

\* how an outcome is told apart once its attempt is over
Class(o) ==
    IF o \in Transient THEN "transient"
    ELSE IF o \in OtherRequestErrors THEN "request_error"
    ELSE o

\* the GET of the current attempt was made and ended with outcome o
Got(c, o) ==
    [c EXCEPT !.gets = @ + 1, !.last = Class(o),
              !.allTransient = @ /\ o \in Transient]

\* time.sleep(3)
Slept(c) == [c EXCEPT !.sleeps = @ + 1]

\* one iteration of fetch_url's loop in site1.py, the GET ending with outcome o;
\* lines: the closing message, printed when the function returns None
fetch_url1(c, n, o) ==
    CASE o = "ok" ->
           [call |-> [Got(c, o) EXCEPT !.result = "response"], lines |-> {}]
      [] o \in {"read_timeout", "connection_error", "connect_timeout"} ->
           [call |-> LoopEnd(Slept(Got(c, o)), n),
            lines |-> IF c.attempt < n THEN {} ELSE {Line("skipping", c.url)}]
      [] o = "http_error" ->
           [call |-> [Got(c, o) EXCEPT !.result = "none"],
            lines |-> {Line("skipping", c.url)}]
      [] OTHER ->
           [call |-> [Got(c, o) EXCEPT !.result = "raised"], lines |-> {}]

\* fetch_url2 without the closing message
fetch_url2_Silent(c, n, o) ==
    IF o = "ok"
    THEN [call |-> [Got(c, o) EXCEPT !.result = "response"], lines |-> {}]
    ELSE [call |-> LoopEnd(Slept(Got(c, o)), n), lines |-> {}]

\* one iteration of fetch_url's loop in site2.py
fetch_url2(c, n, o) ==
    IF o = "ok"
    THEN [call |-> [Got(c, o) EXCEPT !.result = "response"], lines |-> {}]
    ELSE [call |-> LoopEnd(Slept(Got(c, o)), n),
          lines |-> IF c.attempt < n THEN {} ELSE {Line("failed_permanently", c.url)}]

fetch_url(s, c, n, o) == IF s = "site1" THEN fetch_url1(c, n, o) ELSE fetch_url2(c, n, o)

\* One attempt of the fetch_url call in progress.
Attempt ==
    /\ call.result = "running"
    /\ \E o \in Outcomes(web, call.kind, call.url) :
          LET r == fetch_url(site, call, retries, o)
          IN  /\ call' = r.call
              /\ log' = log \cup r.lines
    /\ UNCHANGED <<slug_in, slug_out, slept, site, web, listed, pc, retries, categories, catIdx, article_links, linkIdx,
                   folder, last_page, page, seen, requested, scrapes, files, archive,
                   zips, doc, md>>

-----------------------------------------------------------------------------
(* fetch_url on its own: any site, any retries >= 1, any URL *)

NoMd == [lines |-> <<>>, text |-> ""]

\* the values of the run's variables before the run starts
Fresh ==
    /\ categories = <<>>
    /\ catIdx = 0
    /\ article_links = <<>>
    /\ linkIdx = 0
    /\ folder = ""
    /\ last_page = 0
    /\ page = 0
    /\ seen = {}
    /\ requested = <<>>
    /\ scrapes = <<>>
    /\ files = [q \in {} |-> 0]
    /\ log = {}
    /\ zips = 0
    /\ slept = 0
    /\ slug_in = ""
    /\ slug_out = ""

FetchUrls == {"s://h/a", "s://h/b/a/", "/a"}

InitFetch ==
    /\ site \in Sites
    /\ web = "any"
    /\ listed = 0
    /\ pc = "fetch_url"
    /\ retries \in 1..MaxRetries
    /\ \E u \in FetchUrls : call = NewCall("article", u)
    /\ archive = "untouched"
    /\ doc = <<>>
    /\ md = NoMd
    /\ Fresh

NextFetch == Attempt

SpecFetch == InitFetch /\ [][NextFetch]_vars

-----------------------------------------------------------------------------
(* What the site serves *)

\* sequences over S of length at most n
SeqsUpTo(S, n) == UNION {[1..k -> S] : k \in 0..n}

\* href attributes of listing links; "" is a link without href
Hrefs == {"", "/a", "s://h/a", "s://h/b/a/", "s://h/b"}

\* hrefs of the anchors a[href*='health-topics-category'] of the index page
CategoryHrefs == {"s://h/c/x/", "s://h/c/y", "/c/x"}

ParagraphDoc(n) == <<Node("p", 0), TextNode(1, Rep("x", n))>>

\* content subtrees of article pages, around the 300-character gate
ContentDocs == {ParagraphDoc(MinContent - 1), ParagraphDoc(MinContent)}

NoContent == <<Node("none", 0)>>

\* an article page: whether the title selector matches, the content subtree if any
ArticlePages(w) ==
    IF w = "fixture" THEN {[hasTitle |-> TRUE, content |-> ParagraphDoc(MinContent)]}
    ELSE [hasTitle : BOOLEAN, content : ContentDocs \cup {NoContent}]

Min(a, b) == IF a < b THEN a ELSE b

\* the links of one listing page; the fixture has 3 articles on page 0 and 2 on page 1
Listings(w, n, served) ==
    IF w = "fixture"
    THEN IF n = 0 THEN {<<"/a1", "/a2", "/a3">>} ELSE {<<"/a4", "/a5">>}
    ELSE SeqsUpTo(Hrefs, Min(MaxLinks, MaxListed - served))

\* href of the li.pager-last link of the first listing page; "none": no such link
PagerHrefs(w) ==
    IF w = "fixture" THEN {"/p?page=1"}
    ELSE {"none", "/p", "/p?page=x", "/p?page=-1"}
             \cup {"/p?page=" \o ToString(n) : n \in 0..MaxPage}

-----------------------------------------------------------------------------
(* get_last_page *)

RECURSIVE IndexOf(_, _, _)
\* first index >= i at which t starts in s, 0 if none
IndexOf(s, t, i) ==
    IF i + Len(t) - 1 > Len(s) THEN 0
    ELSE IF SubSeq(s, i, i + Len(t) - 1) = t THEN i
    ELSE IndexOf(s, t, i + 1)

\* parse_qs(urlparse(href).query).get("page", [0])[0]: the first page value as
\* text, "0" for the default; blank values are dropped by parse_qs
PageParam(href) ==
    LET q == IndexOf(href, "?", 1)
        query == IF q = 0 THEN "" ELSE SubSeq(href, q + 1, Len(href))
        at == IF StartsWith(query, "page=") THEN 1
              ELSE LET k == IndexOf(query, "&page=", 1) IN IF k = 0 THEN 0 ELSE k + 1
        rest == IF at = 0 THEN "" ELSE SubSeq(query, at + 5, Len(query))
        amp == IndexOf(rest, "&", 1)
        val == IF amp = 0 THEN rest ELSE SubSeq(rest, 1, amp - 1)
    IN  IF val = "" THEN "0" ELSE val

Digits == <<"0", "1", "2", "3", "4", "5", "6", "7", "8", "9">>
IsDigit(c) == \E k \in 1..10 : Digits[k] = c
DigitVal(c) == (CHOOSE k \in 1..10 : Digits[k] = c) - 1

RECURSIVE NatVal(_, _)
\* value of the digit string s, acc being the value of the digits read
NatVal(s, acc) ==
    IF s = "" THEN acc
    ELSE NatVal(SubSeq(s, 2, Len(s)), 10 * acc + DigitVal(Char(s, 1)))

\* int(text): [ok, value]; ok is FALSE where int raises ValueError
ParseInt(text) ==
    LET t == Strip(text)
        signed == t # "" /\ Char(t, 1) \in {"-", "+"}
        body == IF signed THEN SubSeq(t, 2, Len(t)) ELSE t
        wellFormed == body # "" /\ \A k \in 1..Len(body) : IsDigit(Char(body, k))
    IN  IF ~wellFormed THEN [ok |-> FALSE, value |-> 0]
        ELSE [ok |-> TRUE,
              value |-> IF signed /\ Char(t, 1) = "-" THEN 0 - NatVal(body, 0)
                        ELSE NatVal(body, 0)]

get_last_page(pager) ==
    IF pager = "none" THEN [ok |-> TRUE, value |-> 0] ELSE ParseInt(PageParam(pager))

-----------------------------------------------------------------------------
(* scrape_article after its fetch_url call returned a response *)

\* LowContent with the comparison off by one: <= instead of <
LowContent_OffByOne(body) == Len(body) <= MinContent

\* the gate before the file is written
LowContent(body) == Len(body) < MinContent

\* WriteFile that leaves an existing file of that path as it is (mode "x")
WriteFile_KeepFirst(fs, path, f) ==
    [q \in DOMAIN fs \cup {path} |-> IF q \in DOMAIN fs THEN fs[q] ELSE f]

\* open(file_path, "w") and the three writes: a file of that path is replaced
WriteFile(fs, path, f) ==
    [q \in DOMAIN fs \cup {path} |-> IF q = path THEN f ELSE fs[q]]

\* os.path.join(folder, f"{slug}.md")
FilePath(fold, slug) == fold \o "/" \o slug \o ".md"

\* the rest of scrape_article for the parsed page pg: the files and lines it
\* leaves and what it did
scrape_article(s, url, fold, pg, fs) ==
    IF ~pg.hasTitle \/ pg.content = NoContent
    THEN [files |-> fs,
          lines |-> IF s = "site1" THEN {Line("missing_content", url)}
                    ELSE {Line("skipped_missing", "")},
          did |-> [url |-> url, outcome |-> "missing", len |-> 0, path |-> ""]]
    ELSE LET slug == slug_from_url(url)
             body == html_to_markdown(s, pg.content)
         IN  IF LowContent(body)
             THEN [files |-> fs,
                   lines |-> IF s = "site1" THEN {Line("low_content", url)}
                             ELSE {Line("skipped_low", "")},
                   did |-> [url |-> url, outcome |-> "low", len |-> Len(body), path |-> ""]]
             ELSE [files |-> WriteFile(fs, FilePath(fold, slug),
                                       [title |-> "T", source |-> url, body |-> body]),
                   lines |-> {Line("saved", slug)},
                   did |-> [url |-> url, outcome |-> "saved", len |-> Len(body),
                            path |-> FilePath(fold, slug)]]

\* the loop body without its delay
Delayed_Never(t) == t

\* time.sleep(1) / time.sleep(REQUEST_DELAY) after scrape_article returned
Delayed(t) == t + REQUEST_DELAY

\* fetch_url is called: the call is recorded, with the seconds slept between
\* articles until then, and its loop starts
Fetch(kind, url) ==
    /\ call' = NewCall(kind, url)
    /\ requested' = Append(requested, [kind |-> kind, url |-> url, at |-> slept])

\* the fetch_url call in progress has ended
Ended == call.result \in {"response", "none"}

\* zip_results: an archive of that name is removed if there is one, then the
\* archive is made
zip_results ==
    \E exists \in BOOLEAN : archive' = IF exists THEN "replaced" ELSE "created"

-----------------------------------------------------------------------------
(* site1.py: main, scrape_category and the article loop *)

\* main up to its fetch_url(MAIN_PAGE) call
main1 ==
    /\ site = "site1" /\ pc = "main"
    /\ pc' = "main_fetch"
    /\ Fetch("index", MAIN_PAGE)
    /\ log' = log
    /\ UNCHANGED <<slug_in, slug_out, slept, site, web, listed, retries, categories, catIdx, article_links, linkIdx, folder,
                   last_page, page, seen, scrapes, files, archive, zips, doc, md>>

RECURSIVE Unique(_, _, _)
\* the loop over the category anchors: first-seen-wins on the href
Unique(links, sn, acc) ==
    IF Len(links) = 0 THEN [seen |-> sn, cats |-> acc]
    ELSE LET url == Head(links)
         IN  IF url # "" /\ url \notin sn
             THEN Unique(Tail(links), sn \cup {url}, Append(acc, <<"n", url>>))
             ELSE Unique(Tail(links), sn, acc)

\* main after fetch_url(MAIN_PAGE): return on None, else the unique categories
main_index ==
    /\ site = "site1" /\ pc = "main_fetch" /\ Ended
    /\ \/ /\ call.result = "none"
          /\ pc' = "exit"
          /\ UNCHANGED <<categories, catIdx, seen, log>>
       \/ /\ call.result = "response"
          /\ \E links \in SeqsUpTo(CategoryHrefs, MaxLinks) :
                LET u == Unique(links, {}, <<>>)
                IN  /\ categories' = u.cats
                    /\ seen' = u.seen
                    /\ log' = log
          /\ catIdx' = 1
          /\ pc' = "cat_loop"
    /\ call' = NoCall
    /\ UNCHANGED <<slug_in, slug_out, slept, site, web, listed, retries, article_links, linkIdx, folder, last_page, page,
                   requested, scrapes, files, archive, zips, doc, md>>

\* main's loop over unique_categories: scrape_category up to its fetch_url call,
\* or zip_results and the final message when the loop is over
main_loop ==
    /\ site = "site1" /\ pc = "cat_loop"
    /\ \/ /\ catIdx <= Len(categories)
          /\ LET url == categories[catIdx][2]
             IN  /\ folder' = BASE_FOLDER \o "/" \o slug_from_url(url)
                 /\ Fetch("category", url)
                 /\ log' = log
          /\ pc' = "cat_fetch"
          /\ UNCHANGED <<archive, zips>>
       \/ /\ catIdx > Len(categories)
          /\ zip_results
          /\ zips' = zips + 1
          /\ log' = log \cup {Line("zip_created", ""), Line("all_done", "")}
          /\ pc' = "done"
          /\ UNCHANGED <<folder, call, requested>>
    /\ UNCHANGED <<slug_in, slug_out, slept, site, web, listed, retries, categories, catIdx, article_links, linkIdx,
                   last_page, page, seen, scrapes, files, doc, md>>

\* scrape_category after its fetch_url call: return on None, else the links
scrape_category ==
    /\ site = "site1" /\ pc = "cat_fetch" /\ Ended
    /\ \/ /\ call.result = "none"
          /\ catIdx' = catIdx + 1
          /\ pc' = "cat_loop"
          /\ UNCHANGED <<article_links, linkIdx, log, listed>>
       \/ /\ call.result = "response"
          /\ \E links \in Listings(web, catIdx, listed) :
                /\ article_links' = links
                /\ listed' = listed + Len(links)
                /\ log' = log
          /\ linkIdx' = 1
          /\ pc' = "art_loop"
          /\ UNCHANGED catIdx
    /\ call' = NoCall
    /\ UNCHANGED <<slug_in, slug_out, slept, site, web, retries, categories, folder, last_page, page, seen,
                   requested, scrapes, files, archive, zips, doc, md>>

\* scrape_category's loop over article_links: scrape_article up to its
\* fetch_url call for a link with an href, nothing for one without
category_loop ==
    /\ site = "site1" /\ pc = "art_loop"
    /\ \/ /\ linkIdx <= Len(article_links) /\ article_links[linkIdx] # ""
          /\ Fetch("article", article_links[linkIdx])
          /\ pc' = "art_fetch"
          /\ UNCHANGED <<catIdx, linkIdx>>
       \/ /\ linkIdx <= Len(article_links) /\ article_links[linkIdx] = ""
          /\ linkIdx' = linkIdx + 1
          /\ UNCHANGED <<pc, catIdx, call, requested>>
       \/ /\ linkIdx > Len(article_links)
          /\ catIdx' = catIdx + 1
          /\ pc' = "cat_loop"
          /\ UNCHANGED <<linkIdx, call, requested>>
    /\ UNCHANGED <<slug_in, slug_out, slept, site, web, listed, retries, categories, article_links, folder, last_page, page,
                   seen, scrapes, files, log, archive, zips, doc, md>>

\* the rest of scrape_article and the delay that follows it; shared by both scripts,
\* which differ in the folder, the messages and the loop they return to
article_done ==
    /\ pc = "art_fetch" /\ Ended
    /\ \/ /\ call.result = "none"
          /\ scrapes' = Append(scrapes, [url |-> call.url, outcome |-> call.last,
                                          len |-> 0, path |-> ""])
          /\ UNCHANGED <<files, log>>
       \/ /\ call.result = "response"
          /\ \E pg \in ArticlePages(web) :
                LET r == scrape_article(site, call.url, folder, pg, files)
                IN  /\ files' = r.files
                    /\ log' = log \cup r.lines
                    /\ scrapes' = Append(scrapes, r.did)
    /\ slept' = Delayed(slept)
    /\ linkIdx' = linkIdx + 1
    /\ pc' = IF site = "site1" THEN "art_loop" ELSE "link_loop"
    /\ call' = NoCall
    /\ UNCHANGED <<slug_in, slug_out, site, web, listed, retries, categories, catIdx, article_links, folder, last_page,
                   page, seen, requested, archive, zips, doc, md>>

\* an exception fetch_url did not catch leaves every caller: the run dies
propagate ==
    /\ call.result = "raised"
    /\ pc \in {"main_fetch", "cat_fetch", "art_fetch"}
    /\ pc' = "crashed"
    /\ call' = NoCall
    /\ UNCHANGED <<slug_in, slug_out, slept, site, web, listed, retries, categories, catIdx, article_links, linkIdx,
                   folder, last_page, page, seen, requested, scrapes, files, log,
                   archive, zips, doc, md>>

-----------------------------------------------------------------------------
(* site2.py: main, scrape_all_pages and zip_results *)

\* main and scrape_all_pages up to fetch_url(START_PAGE)
main2 ==
    /\ site = "site2" /\ pc = "main"
    /\ pc' = "first_fetch"
    /\ Fetch("index", START_PAGE)
    /\ log' = log
    /\ UNCHANGED <<slug_in, slug_out, slept, site, web, listed, retries, categories, catIdx, article_links, linkIdx, folder,
                   last_page, page, seen, scrapes, files, archive, zips, doc, md>>

\* scrape_all_pages after fetch_url(START_PAGE): return on None, else
\* get_last_page, whose int() may raise
first_page ==
    /\ site = "site2" /\ pc = "first_fetch" /\ Ended
    /\ \/ /\ call.result = "none"
          /\ pc' = "zip"
          /\ UNCHANGED <<last_page, page, log>>
       \/ /\ call.result = "response"
          /\ \E pager \in PagerHrefs(web) :
                LET r == get_last_page(pager)
                IN  IF r.ok
                    THEN /\ last_page' = r.value
                         /\ page' = 0
                         /\ log' = log
                         /\ pc' = "page_loop"
                    ELSE /\ pc' = "crashed"
                         /\ UNCHANGED <<last_page, page, log>>
    /\ call' = NoCall
    /\ folder' = OUTPUT_FOLDER
    /\ UNCHANGED <<slug_in, slug_out, slept, site, web, listed, retries, categories, catIdx, article_links, linkIdx, seen,
                   requested, scrapes, files, archive, zips, doc, md>>

\* page_url = f"{START_PAGE}?page={page}"
PageUrl(n) == START_PAGE \o "?page=" \o ToString(n)

\* the loop over range(0, last_page + 1) up to fetch_url(page_url), or the
\* return to main when the range is exhausted
page_loop ==
    /\ site = "site2" /\ pc = "page_loop"
    /\ \/ /\ page <= last_page
          /\ Fetch("page", PageUrl(page))
          /\ log' = log
          /\ pc' = "page_fetch"
       \/ /\ page > last_page
          /\ pc' = "zip"
          /\ UNCHANGED <<call, requested, log>>
    /\ UNCHANGED <<slug_in, slug_out, slept, site, web, listed, retries, categories, catIdx, article_links, linkIdx, folder,
                   last_page, page, seen, scrapes, files, archive, zips, doc, md>>

\* after fetch_url(page_url): continue on None, else the page's links
page_listing ==
    /\ site = "site2" /\ pc = "page_fetch" /\ Ended
    /\ \/ /\ call.result = "none"
          /\ page' = page + 1
          /\ pc' = "page_loop"
          /\ UNCHANGED <<article_links, linkIdx, log, listed>>
       \/ /\ call.result = "response"
          /\ \E links \in Listings(web, page, listed) :
                /\ article_links' = links
                /\ listed' = listed + Len(links)
                /\ log' = log
          /\ linkIdx' = 1
          /\ pc' = "link_loop"
          /\ UNCHANGED page
    /\ call' = NoCall
    /\ UNCHANGED <<slug_in, slug_out, slept, site, web, retries, categories, catIdx, folder, last_page, seen,
                   requested, scrapes, files, archive, zips, doc, md>>

\* IsNew without the seen check
IsNew_Always(full_url, sn) == TRUE

\* whether the loop body goes on to scrape_article for this full URL
IsNew(full_url, sn) == full_url \notin sn

\* the loop over article_links: skip a link without href or already seen, else
\* record the URL and enter scrape_article up to its fetch_url call
link_loop ==
    /\ site = "site2" /\ pc = "link_loop"
    /\ \/ /\ linkIdx <= Len(article_links) /\ article_links[linkIdx] = ""
          /\ linkIdx' = linkIdx + 1
          /\ UNCHANGED <<pc, page, seen, call, requested, log>>
       \/ /\ linkIdx <= Len(article_links) /\ article_links[linkIdx] # ""
          /\ LET full_url == urljoin(BASE_URL, article_links[linkIdx])
             IN  IF IsNew(full_url, seen)
                 THEN /\ seen' = seen \cup {full_url}
                      /\ Fetch("article", full_url)
                      /\ log' = log \cup {Line("article", full_url)}
                      /\ pc' = "art_fetch"
                      /\ UNCHANGED linkIdx
                 ELSE /\ linkIdx' = linkIdx + 1
                      /\ UNCHANGED <<pc, seen, call, requested, log>>
          /\ UNCHANGED page
       \/ /\ linkIdx > Len(article_links)
          /\ page' = page + 1
          /\ pc' = "page_loop"
          /\ UNCHANGED <<linkIdx, seen, call, requested, log>>
    /\ UNCHANGED <<slug_in, slug_out, slept, site, web, listed, retries, categories, catIdx, article_links, folder, last_page,
                   scrapes, files, archive, zips, doc, md>>

\* main after scrape_all_pages returned: zip_results and the final message
zip_results2 ==
    /\ site = "site2" /\ pc = "zip"
    /\ zip_results
    /\ zips' = zips + 1
    /\ log' = log \cup {Line("zip_created", ""), Line("all_done", "")}
    /\ pc' = "done"
    /\ UNCHANGED <<slug_in, slug_out, slept, site, web, listed, retries, call, categories, catIdx, article_links, linkIdx,
                   folder, last_page, page, seen, requested, scrapes, files,
                   doc, md>>

-----------------------------------------------------------------------------
(* A whole run of either script *)

Init ==
    /\ site \in Sites
    /\ web \in IF site = "site2" THEN {"any", "fixture"} ELSE {"any"}
    /\ listed = 0
    /\ pc = "main"
    /\ retries = DefaultRetries
    /\ call = NoCall
    /\ archive = "untouched"
    /\ doc = <<>>
    /\ md = NoMd
    /\ Fresh

Next ==
    \/ main1
    \/ main_index
    \/ main_loop
    \/ scrape_category
    \/ category_loop
    \/ article_done
    \/ propagate
    \/ main2
    \/ first_page
    \/ page_loop
    \/ page_listing
    \/ link_loop
    \/ zip_results2
    \/ Attempt

Spec == Init /\ [][Next]_vars

-----------------------------------------------------------------------------
(* html_to_markdown on its own: any small content subtree *)

\* tags and attribute values the subtrees are built from
DocTags == {"p", "a", "strong", "code"}
DocTexts == {" x", " "}
DocHrefs == {"", "/u"}

\* the nodes that may come next in document order after the nodes of d: the
\* parent is the root, the last node if it is an element, or one of its ancestors
NextNodes(d) ==
    LET n == Len(d)
        parents == {0} \cup {k \in 1..n : d[k].tag # "#text" /\ (k = n \/ IsDesc(d, k, n))}
    IN  UNION {
          {Node(t, q) : t \in DocTags \ {"a"}}
            \cup {LinkNode(q, h) : h \in DocHrefs}
            \cup {TextNode(q, t) : t \in DocTexts} : q \in parents}

RECURSIVE DocsOfLen(_)
DocsOfLen(n) ==
    IF n = 0 THEN {<<>>}
    ELSE UNION {{Append(d, nd) : nd \in NextNodes(d)} : d \in DocsOfLen(n - 1)}

\* the content subtrees of at most n nodes
Docs(n) == UNION {DocsOfLen(k) : k \in 0..n}

InitMd ==
    /\ site \in Sites
    /\ web = "any"
    /\ listed = 0
    /\ pc = "convert"
    /\ retries = DefaultRetries
    /\ call = NoCall
    /\ archive = "untouched"
    /\ doc \in Docs(MaxNodes)
    /\ md = NoMd
    /\ Fresh

\* html_to_markdown(content_div) is called and returns
convert ==
    /\ pc = "convert"
    /\ md' = [lines |-> MdLines(site, doc), text |-> html_to_markdown(site, doc)]
    /\ pc' = "converted"
    /\ UNCHANGED <<slug_in, slug_out, slept, site, web, listed, retries, call, categories, catIdx, article_links,
                   linkIdx, folder, last_page, page, seen, requested, scrapes, files,
                   log, archive, zips, doc>>

NextMd == convert

SpecMd == InitMd /\ [][NextMd]_vars

-----------------------------------------------------------------------------
(* html_to_markdown on its own: tables and figures *)

RowNames == <<"A", "B", "C", "D">>

\* the text of the cell in row r, column c: "A1", "A2", ... or blank
CellText(r, c, filled) == IF filled THEN RowNames[r] \o ToString(c) ELSE " "

RECURSIVE AddCells(_, _, _, _, _)
\* d with the cells c, c + 1, ... of row r appended under the tr at index tr;
\* the first cell of a row is a th, the others are td
AddCells(d, tr, r, cells, c) ==
    IF c > Len(cells) THEN d
    ELSE LET d1 == Append(d, Node(IF c = 1 THEN "th" ELSE "td", tr))
             d2 == Append(d1, TextNode(Len(d1), CellText(r, c, cells[c])))
         IN  AddCells(d2, tr, r, cells, c + 1)

RECURSIVE AddRows(_, _, _, _)
\* d with the rows r, r + 1, ... appended under the table at index t
AddRows(d, t, rows, r) ==
    IF r > Len(rows) THEN d
    ELSE LET d1 == Append(d, Node("tr", t))
         IN  AddRows(AddCells(d1, Len(d1), r, rows[r], 1), t, rows, r + 1)

\* <table> with the given rows, each a sequence of cells: filled or blank
TableDoc(rows) == AddRows(<<Node("table", 0)>>, 1, rows, 1)

\* a table whose first cell holds another table
NestedTableDoc ==
    <<Node("table", 0), Node("tr", 1),
        Node("td", 2),
          Node("table", 3), Node("tr", 4),
            Node("td", 5), TextNode(6, "N1"),
            Node("td", 5), TextNode(8, "N2"),
        Node("td", 2), TextNode(10, "A2")>>

\* the tables of at most maxRows rows of at most maxCells cells, and the nested one
TableDocs(maxRows, maxCells) ==
    {TableDoc(rows) : rows \in SeqsUpTo(SeqsUpTo(BOOLEAN, maxCells), maxRows)}
        \cup {NestedTableDoc}

\* <figure> with an image, directly or inside a link, possibly a second image
\* and possibly a caption
FigureDoc(wrapped, src, second, cap) ==
    LET d1 == IF wrapped
              THEN <<Node("figure", 0), LinkNode(1, "/u"), ImgNode(2, src, "x")>>
              ELSE <<Node("figure", 0), ImgNode(1, src, "x")>>
        d2 == IF second THEN Append(d1, ImgNode(1, "/i2", "y")) ELSE d1
    IN  IF cap = "none" THEN d2
        ELSE d2 \o <<Node("figcaption", 1), TextNode(Len(d2) + 1, cap)>>

FigureDocs ==
    {FigureDoc(w, src, second, cap) :
        w \in BOOLEAN, src \in {"", "/i1"}, second \in BOOLEAN, cap \in {"none", " ", "c"}}
        \cup {<<ImgNode(0, src, "x")>> : src \in {"", "/i1"}}
        \cup {<<Node("p", 0), ImgNode(1, "/i1", "x")>>}

BlockDocs(maxRows, maxCells) == TableDocs(maxRows, maxCells) \cup FigureDocs

InitBlocks ==
    /\ site \in Sites
    /\ web = "any"
    /\ listed = 0
    /\ pc = "convert"
    /\ retries = DefaultRetries
    /\ call = NoCall
    /\ archive = "untouched"
    /\ doc \in BlockDocs(MaxRows, MaxCells)
    /\ md = NoMd
    /\ Fresh

SpecBlocks == InitBlocks /\ [][NextMd]_vars

-----------------------------------------------------------------------------
(* slug_from_url on its own: any short URL *)

UrlChars == {"/", "a", "b"}

RECURSIVE StringsOfLen(_)
StringsOfLen(n) ==
    IF n = 0 THEN {""}
    ELSE {t \o c : t \in StringsOfLen(n - 1), c \in UrlChars}

Urls == UNION {StringsOfLen(n) : n \in 0..MaxUrlLen}

InitSlug ==
    /\ site \in Sites
    /\ web = "any"
    /\ listed = 0
    /\ pc = "slug"
    /\ retries = DefaultRetries
    /\ call = NoCall
    /\ archive = "untouched"
    /\ doc = <<>>
    /\ md = NoMd
    /\ categories = <<>> /\ catIdx = 0 /\ article_links = <<>> /\ linkIdx = 0
    /\ folder = "" /\ last_page = 0 /\ page = 0 /\ seen = {}
    /\ requested = <<>> /\ scrapes = <<>> /\ files = [q \in {} |-> 0]
    /\ log = {} /\ zips = 0 /\ slept = 0
    /\ slug_in \in Urls
    /\ slug_out = ""

\* slug_from_url(url) is called and returns
slugify ==
    /\ pc = "slug"
    /\ slug_out' = slug_from_url(slug_in)
    /\ pc' = "slugged"
    /\ UNCHANGED <<slug_in, slept, site, web, listed, retries, call, categories, catIdx,
                   article_links, linkIdx, folder, last_page, page, seen, requested,
                   scrapes, files, log, archive, zips, doc, md>>

NextSlug == slugify

SpecSlug == InitSlug /\ [][NextSlug]_vars

-----------------------------------------------------------------------------
(* Properties of fetch_url, checked under SpecFetch *)

\* C1: once an attempt of a call got a response with an error status, the call
\* has returned None without another GET; if that was the first attempt the
\* call made exactly one GET.
C1_HttpErrorNeverRetried ==
    call.last = "http_error" =>
        /\ call.result = "none"
        /\ call.attempt = 1 => call.gets = 1

\* C2: a call never makes more than retries GETs, and a call all of whose
\* attempts failed transiently goes on until it has made exactly retries GETs
\* and then returns None.
C2_TransientFailureTakesExactlyN ==
    /\ call.gets <= retries
    /\ (call.gets > 0 /\ call.allTransient) =>
          IF call.result = "running" THEN call.gets < retries
          ELSE call.result = "none" /\ call.gets = retries

C2_Witness ==
    /\ retries = DefaultRetries
    /\ call.allTransient
    /\ call.result = "none"
    /\ call.gets = DefaultRetries

\* C3: no fetch_url call ends by raising: it returns a response or None.
C3_NoExceptionEscapes == call.result # "raised"

-----------------------------------------------------------------------------
(* Properties of a whole run, checked under Spec *)

Last(q) == q[Len(q)]

\* C4: an article with a response, a title and a content root is written if and
\* only if its Markdown body has at least 300 characters; the files of the
\* output tree are exactly those of the articles written, and each holds a
\* body of at least 300 characters.
C4_WrittenIffAtLeast300 ==
    /\ \A k \in 1..Len(scrapes) :
          scrapes[k].outcome \in {"low", "saved"} =>
              (scrapes[k].outcome = "saved" <=> scrapes[k].len >= 300)
    /\ DOMAIN files = {scrapes[k].path : k \in {j \in 1..Len(scrapes) :
                                                  scrapes[j].outcome = "saved"}}
    /\ \A q \in DOMAIN files : Len(files[q].body) >= 300

C4_Witness ==
    \E j, k \in 1..Len(scrapes) :
        /\ scrapes[j].outcome = "low" /\ scrapes[j].len = 299
        /\ scrapes[k].outcome = "saved" /\ scrapes[k].len = 300
        /\ scrapes[k].path \in DOMAIN files

\* C5: the categories processed are pairwise different, and no article URL is
\* passed to scrape_article twice (in site1: twice for the same category).
C5_NoUrlProcessedTwice ==
    /\ \A i, j \in 1..Len(categories) : i # j => categories[i][2] # categories[j][2]
    /\ \A i, j \in 1..Len(requested) :
          (/\ i < j
           /\ requested[i].kind = "article" /\ requested[j].kind = "article"
           /\ requested[i].url = requested[j].url)
          => /\ site = "site1"
             /\ \E m \in (i + 1)..(j - 1) : requested[m].kind = "category"

\* fetch_url returned None for the index page
IndexFailed ==
    \/ Line("skipping", MAIN_PAGE) \in log
    \/ Line("failed_permanently", START_PAGE) \in log

\* C6: after the index fetch failed nothing else is fetched, the archive is left
\* alone and the run does not report success.
C6_IndexFailureAbortsRun ==
    IndexFailed =>
        /\ Len(requested) = 1
        /\ archive = "untouched" /\ zips = 0
        /\ Line("all_done", "") \notin log

\* C7: the run never dies in scrape_article: whatever happens to an article, the
\* loop goes on.
C7_NoArticleFailureAbortsRun ==
    ~(pc = "crashed" /\ Len(requested) > 0 /\ Last(requested).kind = "article")

Requests(kind) == {k \in 1..Len(requested) : requested[k].kind = kind}

\* C8: the run never dies in the fetch of a listing or category page, and a run
\* that ends has requested every page index up to last_page and every category.
C8_PageFailureSkipsOnlyThatPage ==
    /\ ~(pc = "crashed" /\ Len(requested) > 0
           /\ Last(requested).kind \in {"category", "page"})
    /\ (pc = "done" /\ site = "site2" /\ ~IndexFailed) =>
          {requested[k].url : k \in Requests("page")}
              = {PageUrl(n) : n \in 0..last_page}
    /\ (pc = "done" /\ site = "site1") =>
          Cardinality(Requests("category")) = Len(categories)

\* the articles whose fetch_url call ended with an error status and None
HttpFailed == {k \in 1..Len(scrapes) : scrapes[k].outcome = "http_error"}

\* the closing messages of the failed article fetches
ArticleSkipLines == {l \in log : l.msg = "failed_permanently" /\ l.url \in seen}

\* C9: a finished site2 run all of whose listed links were new URLs with
\* different slugs, and all of whose articles either were valid with at least
\* 300 characters or failed with an error status, has written one file per
\* article that did not fail and logged one skip per article that did.
C9_FilesAndSkipsAddUp ==
    (/\ site = "site2" /\ pc = "done"
     /\ listed = Len(scrapes)
     /\ \A i, j \in 1..Len(scrapes) :
           i # j => slug_from_url(scrapes[i].url) # slug_from_url(scrapes[j].url)
     /\ \A k \in 1..Len(scrapes) : scrapes[k].outcome \in {"saved", "http_error"})
    => /\ Cardinality(DOMAIN files) = listed - Cardinality(HttpFailed)
       /\ Cardinality(ArticleSkipLines) = Cardinality(HttpFailed)

\* two pages with 3 and 2 articles, one fetch failed: 4 files and 1 skip
C9_Witness ==
    /\ web = "fixture" /\ pc = "done"
    /\ listed = 5 /\ Len(scrapes) = 5
    /\ Cardinality(HttpFailed) = 1
    /\ Cardinality(DOMAIN files) = 4
    /\ Cardinality(ArticleSkipLines) = 1

-----------------------------------------------------------------------------
(* Properties of html_to_markdown, checked under SpecMd *)

\* element n lies inside the paragraph b
InParagraph(d, b, n) == d[b].tag = "p" /\ IsDesc(d, b, n)

\* a link with href and visible text, or inline code with text
EmittingInline(d, n) ==
    \/ d[n].tag = "a" /\ d[n].href # "" /\ get_text_strip(d, n, "") # ""
    \/ d[n].tag = "code" /\ get_text_strip(d, n, "") # ""

\* a strong run with text
EmphasisRun(d, n) == d[n].tag = "strong" /\ get_text_strip(d, n, "") # ""

\* the line a link or an inline code is expected to get for itself
OwnLine(s, d, n) ==
    LET text == get_text_strip(d, n, "")
    IN  IF d[n].tag = "code" THEN BACKTICK \o text \o BACKTICK
        ELSE "[" \o text \o "]("
                 \o (IF s = "site1" THEN d[n].href ELSE urljoin(BASE_URL, d[n].href))
                 \o ")"

\* the strings of n are in the line of paragraph b (separated by spaces, as the
\* paragraph's text extraction joins them), and n's own line comes later
EmittedTwice(s, d, b, n, lines) ==
    \E i, j \in 1..Len(lines) :
        /\ i < j
        /\ lines[i] = get_text_strip(d, b, " ") \o "\n"
        /\ Contains(lines[i], get_text_strip(d, n, " "))
        /\ lines[j] = OwnLine(s, d, n)

\* the elements that get a line: paragraphs with text, links and inline code
LineOwners(d) ==
    {n \in 1..Len(d) : \/ d[n].tag = "p" /\ get_text_strip(d, n, " ") # ""
                       \/ EmittingInline(d, n)}

\* C10 (as amended): every link with href and text and every inline code with
\* text inside a paragraph is emitted twice, in the paragraph's line and later
\* in a line of its own; a strong run gets no line of its own: md has one line
\* per paragraph with text, link and inline code and no other line.
C10_LinksAndCodeEmittedTwice ==
    pc = "converted" =>
        /\ \A b, n \in 1..Len(doc) :
              (InParagraph(doc, b, n) /\ EmittingInline(doc, n))
              => EmittedTwice(site, doc, b, n, md.lines)
        /\ Len(md.lines) = Cardinality(LineOwners(doc))

C10_Witness ==
    /\ pc = "converted" /\ site = "site2"
    /\ doc = <<Node("p", 0), LinkNode(1, "/u"), TextNode(2, " x")>>
    /\ md.lines = <<"x\n", "[x](s://h/u)">>
    /\ md.text = "x\n\n[x](s://h/u)"

\* C10 (as claimed): every allowed inline element inside a paragraph, a strong
\* run included, is emitted twice: beside the paragraph's line, md has a line
\* for each of them.
C10_EveryInlineEmittedTwice ==
    pc = "converted" =>
        /\ \A b, n \in 1..Len(doc) :
              (InParagraph(doc, b, n) /\ EmittingInline(doc, n))
              => EmittedTwice(site, doc, b, n, md.lines)
        /\ Len(md.lines) >=
              Cardinality(LineOwners(doc)
                  \cup {n \in 1..Len(doc) :
                          /\ EmphasisRun(doc, n)
                          /\ \E b \in 1..Len(doc) : InParagraph(doc, b, n)})

-----------------------------------------------------------------------------
(* Properties of html_to_markdown on tables and figures, checked under SpecBlocks *)

\* the cells of row r: the td and th children of the tr
OwnCells(d, r) == find_all(d, r, {"td", "th"}, FALSE)

\* the line a row is to get: one for its first two cells if both have text
RowLine(d, r) ==
    LET cells == OwnCells(d, r)
    IN  IF /\ Len(cells) >= 2
           /\ get_text_strip(d, cells[1], " ") # ""
           /\ get_text_strip(d, cells[2], " ") # ""
        THEN <<"- **" \o get_text_strip(d, cells[1], " ") \o "** "
                      \o get_text_strip(d, cells[2], " ")>>
        ELSE <<>>

\* one line per qualifying row, each row once, in row order
TableLines(d) ==
    LET rows == find_all(d, 0, {"tr"}, TRUE)
    IN  Flatten([k \in 1..Len(rows) |-> RowLine(d, rows[k])])

\* C11: for a table, the lines of the output other than blank ones are exactly
\* the lines "- **first** second" of the rows with at least 2 cells and text in
\* the first two, one per row, in row order.
C11_OneLinePerQualifyingRow ==
    (pc = "converted" /\ Len(doc) > 0 /\ doc[1].tag = "table")
    => SelectSeq(md.lines, LAMBDA l : l # "") = TableLines(doc)

\* image i lies inside a figure, at any depth
InFigure(d, i) == \E f \in 1..Len(d) : d[f].tag = "figure" /\ IsDesc(d, f, i)

\* the image reference lines for image i: with the source as it is or joined to
\* BASE_URL, closing the line or followed by a blank line
ImageLines(d, i) ==
    {"![" \o alt \o "](" \o src \o ")" \o nl :
        alt \in {d[i].alt, Strip(d[i].alt)},
        src \in {d[i].src, urljoin(BASE_URL, d[i].src)},
        nl \in {"", "\n"}}

\* the positions of the output that hold an image reference line for image i
ImagePositions(d, i, lines) == {k \in 1..Len(lines) : lines[k] \in ImageLines(d, i)}

\* C18: each image with a source has exactly one image reference line in the
\* output, and the line of the first image of a figure with a non-empty
\* caption is followed by the italicized caption line.
C18_EachImageOnceWithCaption ==
    pc = "converted" =>
        \A i \in 1..Len(doc) :
            (doc[i].tag = "img" /\ doc[i].src # "") =>
                /\ Cardinality(ImagePositions(doc, i, md.lines)) = 1
                /\ \A f \in 1..Len(doc) :
                      (/\ doc[f].tag = "figure" /\ find(doc, f, "img") = i
                       /\ find(doc, f, "figcaption") # 0
                       /\ get_text_strip(doc, find(doc, f, "figcaption"), " ") # "")
                      => \E k \in ImagePositions(doc, i, md.lines) :
                            /\ k < Len(md.lines)
                            /\ md.lines[k + 1] =
                                 "*" \o get_text_strip(doc, find(doc, f, "figcaption"), " ")
                                     \o "*\n"

-----------------------------------------------------------------------------
(* Properties of slug_from_url, checked under SpecSlug *)

\* t is the final non-empty segment of u: it starts u or follows a separator,
\* holds no separator, and only separators follow it
FinalSegment(u, t) ==
    \E i, j \in 1..Len(u) :
        /\ i <= j
        /\ t = SubSeq(u, i, j)
        /\ i = 1 \/ Char(u, i - 1) = "/"
        /\ \A k \in i..j : Char(u, k) # "/"
        /\ \A k \in (j + 1)..Len(u) : Char(u, k) = "/"

\* C12: slug_from_url(u) equals slug_from_url(u + "/"), holds no separator, and
\* is the final non-empty segment of u; it is empty only when u has no
\* non-empty segment.
C12_SlugIgnoresTrailingSeparator ==
    pc = "slugged" =>
        /\ slug_out = slug_from_url(slug_in \o "/")
        /\ ~Contains(slug_out, "/")
        /\ IF \E k \in 1..Len(slug_in) : Char(slug_in, k) # "/"
           THEN FinalSegment(slug_in, slug_out)
           ELSE slug_out = ""

C12_Witness ==
    /\ pc = "slugged"
    /\ slug_in = "a/b/"
    /\ slug_out = "b"
    /\ slug_from_url("a/b") = "b"

-----------------------------------------------------------------------------
(* Properties of the delays of a run, checked under Spec *)

\* C13: of any two article fetches of a run the later one starts after at least
\* one more delay of the crawl loop than the earlier one, whatever the earlier
\* article ended with and whether or not a category or page fetch lies between.
C13_DelayBetweenArticleFetches ==
    \A i, j \in Requests("article") :
        i < j => requested[j].at >= requested[i].at + REQUEST_DELAY

\* two articles of site1, the first one's fetch failed, the second fetched
\* after the delay
C13_Witness ==
    /\ site = "site1"
    /\ Cardinality(Requests("article")) = 2
    /\ Len(scrapes) >= 1 /\ scrapes[1].outcome = "http_error"
    /\ Last(requested).kind = "article"
    /\ Last(requested).at = REQUEST_DELAY

\* C14: of any two listing-page fetches of site2 that follow one another (the
\* START_PAGE fetch and the page=0 fetch included) the later one starts after
\* at least one more delay than the earlier one.
C14_DelayBetweenPageFetches ==
    site = "site2" =>
        \A i, j \in Requests("index") \cup Requests("page") :
            i < j => requested[j].at >= requested[i].at + REQUEST_DELAY

-----------------------------------------------------------------------------
(* Properties of the pagination of site2, checked under Spec *)

\* the listing-page fetches of the run, in order
PageRequests == SelectSeq(requested, LAMBDA r : r.kind = "page")

\* C15: get_last_page returns for every first page, and returns a number L >= 0;
\* the listing pages requested are START_PAGE?page=0, 1, ... in this order, each
\* once, and all of 0..L once the loop is over.
C15_PagesZeroToLast ==
    site = "site2" =>
        /\ pc # "crashed"
        /\ last_page >= 0
        /\ Len(PageRequests) <= last_page + 1
        /\ \A k \in 1..Len(PageRequests) : PageRequests[k].url = PageUrl(k - 1)
        /\ (pc \in {"zip", "done"} /\ ~IndexFailed) => Len(PageRequests) = last_page + 1

-----------------------------------------------------------------------------
(* Properties of the log of a run, checked under Spec *)

\* the messages that report a skip
SkipMessages ==
    {"skipping", "failed_permanently", "missing_content", "low_content",
     "skipped_missing", "skipped_low"}

\* C16: every article that was not saved (its fetch failed, its title or
\* content root was missing, or its body was short) has a skip message in the
\* log that holds the article's URL.
C16_EverySkipLoggedWithUrl ==
    \A k \in 1..Len(scrapes) :
        scrapes[k].outcome # "saved" =>
            \E l \in log : l.msg \in SkipMessages /\ l.url = scrapes[k].url

-----------------------------------------------------------------------------
(* Properties of the archive step, checked under Spec *)

\* fetch_url returned a response for the index page
IndexFetched ==
    /\ pc \notin {"main", "main_fetch", "first_fetch", "exit"}
    /\ ~IndexFailed
    /\ ~(site = "site1" /\ pc = "crashed" /\ Last(requested).kind = "index")

\* C17: zip_results runs at most once, after it nothing is fetched or written
\* (the run is over), and a run whose index fetch succeeded and that is over
\* has run it exactly once.
C17_ArchiveOnceAfterAll ==
    /\ zips <= 1
    /\ zips = 1 => (pc = "done" /\ call = NoCall /\ archive \in {"created", "replaced"})
    /\ (IndexFetched /\ pc \in {"done", "crashed"}) => zips = 1

-----------------------------------------------------------------------------
(* Properties of the seen set of site2, checked under Spec *)

\* the URLs scrape_article has been called with
ArticleUrls == {requested[k].url : k \in Requests("article")}

\* C19: the seen set never loses a URL; in site2 it is at every moment the set
\* of URLs scrape_article has been called with, and scrape_article is never
\* called twice with the same URL, whatever became of the first call.
C19_SeenOnlyGrowsAndIsScraped ==
    /\ [](site = "site2" =>
            /\ seen = ArticleUrls
            /\ \A i, j \in Requests("article") :
                  requested[i].url = requested[j].url => i = j)
    /\ [][seen \subseteq seen']_vars

\* the article of page 0 failed; page 1 lists it again and the loop has passed
\* that link without another call
C19_Witness ==
    /\ site = "site2" /\ pc = "link_loop"
    /\ page = 1 /\ article_links = <<"/a">> /\ linkIdx = 2
    /\ seen = {"s://h/a"}
    /\ Len(scrapes) = 1 /\ scrapes[1].outcome = "http_error"
    /\ Cardinality(Requests("article")) = 1

-----------------------------------------------------------------------------
(* Properties of the output tree, checked under Spec *)

\* the scrape_article calls that wrote a file
SavedIdx == {k \in 1..Len(scrapes) : scrapes[k].outcome = "saved"}

\* C20: each file of the output tree holds the article of the latest accepted
\* scrape with that folder and slug, so there is one file per folder and slug
\* of the accepted articles; a step changes no file but the one of the article
\* it accepts, removes none, and a write over an existing file neither ends
\* the run nor logs anything but the saved message.
C20_LaterWriteReplacesEarlier ==
    /\ [](/\ \A q \in DOMAIN files :
               \E k \in SavedIdx :
                   /\ scrapes[k].path = q
                   /\ \A j \in SavedIdx : scrapes[j].path = q => j <= k
                   /\ files[q].source = scrapes[k].url
          /\ Cardinality(DOMAIN files) = Cardinality({scrapes[k].path : k \in SavedIdx}))
    /\ [][\A q \in DOMAIN files :
             /\ q \in DOMAIN files'
             /\ files'[q] # files[q] =>
                   /\ Len(scrapes') = Len(scrapes) + 1
                   /\ Last(scrapes').outcome = "saved" /\ Last(scrapes').path = q
                   /\ pc' # "crashed"
                   /\ log' \ log \subseteq {Line("saved", slug_from_url(Last(scrapes').url))}]_vars

\* two accepted articles with different URLs and the same slug: one file,
\* holding the second
C20_Witness ==
    /\ Len(scrapes) = 2
    /\ scrapes[1].outcome = "saved" /\ scrapes[2].outcome = "saved"
    /\ scrapes[1].url # scrapes[2].url
    /\ scrapes[1].path = scrapes[2].path
    /\ DOMAIN files = {scrapes[2].path}
    /\ files[scrapes[2].path].source = scrapes[2].url

-----------------------------------------------------------------------------
(* Properties of the delays of fetch_url, checked under SpecFetch *)

\* C21: a fetch_url call that has returned after N attempts has slept exactly
\* N - 1 times: once between two attempts, and not after its last attempt,
\* be it a success, an error status or the final failure.
C21_DelaysOnlyBetweenAttempts ==
    call.result \in {"response", "none"} => call.sleeps = call.gets - 1

=============================================================================
